---------------------------- MODULE Spec2Model ----------------------------
(***************************************************************************)
(* State-machine model of the chat session engine of                       *)
(* src/frontend/components/chat-screen.tsx (component ChatScreen).         *)
(*                                                                         *)
(* The component is a React function component: every handler runs to      *)
(* completion on the single event-loop thread, reading the state of the    *)
(* render it was created in.  A handler that awaits (sendMessage,          *)
(* handleImageSelect, startAudioVisualization) is split at the await: the  *)
(* first action is the synchronous prefix, the completion action is the    *)
(* continuation, which still reads the values CAPTURED by the prefix       *)
(* (conversation, updatedConversation, conversations), never the current   *)
(* ones.  Refs (recognitionRef, mediaStreamRef, audioContextRef, ...) are  *)
(* shared cells and are read at the time of use.                           *)
(*                                                                         *)
(* Ids are decimal strings of Date.now() in the source; toString is        *)
(* injective on the integers, so an id is modelled by the integer it       *)
(* denotes.  Texts are sequences of one-character strings.                 *)
(***************************************************************************)
EXTENDS Integers, Sequences, FiniteSets, TLC

\* ------------------------------------------------------------------ bounds
\* Number of milliseconds a behaviour may take.
MaxTicks == 1
\* Number of turns sendMessage may accept in a behaviour.
MaxSends == 2
\* Number of getUserMedia requests startAudioVisualization may issue.
MaxAcquire == 2
\* Number of image encodings that may be pending at once.
MaxEncode == 1
\* Number of result events a listening episode may deliver.
MaxTranscript == 3

\* ------------------------------------------------------------ value spaces
\* currentConversation === null
NoConversation == [id |-> 0, messages |-> <<>>]
\* selectedImage === null
NoImage == "none"

\* Conversations the backend holds for the user when the component mounts
\* (GET /api/conversations/{user.id}); ids and timestamps lie in the past.
StoredConversations ==
    << [id |-> 1, messages |-> << [id |-> 1, text |-> <<"h">>, isUser |-> TRUE,
                                   timestamp |-> 1, image |-> NoImage, req |-> 0] >>],
       [id |-> 2, messages |-> << [id |-> 2, text |-> <<"k">>, isUser |-> TRUE,
                                   timestamp |-> 2, image |-> NoImage, req |-> 0] >>] >>

\* First Date.now() reading of the session: later than everything stored.
MountTime == Len(StoredConversations) + 1

\* What Date.now() may return: the clock never goes back and may return the
\* same millisecond again.
Readings(latest) == latest..(MountTime + MaxTicks)

\* Texts the user may type into the composer (onChange of the Input).
TypedTexts == { <<>>, <<"q">> }

\* Question of an example card (getExampleQuestions).
ExampleQuestion == <<"e">>

\* The languages of the selector used here, and getLanguageCode.
Languages == { "en", "hi" }

getLanguageCode(l) == CASE l = "en" -> "en-US"
                        [] l = "hi" -> "hi-IN"
                        [] OTHER    -> "en-US"

\* Files the user may pick: [name, isImage, size].
MaxImageBytes == 5 * 1024 * 1024
Files ==
    { [name |-> "img1", isImage |-> TRUE,  size |-> MaxImageBytes],
      [name |-> "big",  isImage |-> TRUE,  size |-> MaxImageBytes + 1],
      [name |-> "doc",  isImage |-> FALSE, size |-> 10] }

VARIABLES
    now,                  \* the latest reading of Date.now()
    message,              \* useState("")  composer text
    conversations,        \* useState<Conversation[]>([])
    currentConversation,  \* useState<Conversation | null>(null)
    isListening,          \* useState(false)
    isLoading,            \* useState(false)
    showTextInput,        \* useState(false)
    audioLevel,           \* useState(0)
    selectedImage,        \* useState<string | null>(null)
    requests,             \* closures of the sendMessage calls whose fetch is pending, by number
    sent,                 \* number of turns sendMessage has accepted
    sentTo,               \* history: the conversationId of each request's body, by number
    loadPending,          \* loadConversations' fetch has not resolved
    encoding,             \* files whose fileToDataURL has not resolved
    recognitionRef,       \* recognitionRef.current !== null (the browser has the API)
    recState,             \* platform state of recognitionRef.current
    silenceTimer,         \* silenceTimeout is armed
    finalTranscript,      \* closure variable finalTranscript
    acquiring,            \* getUserMedia calls that have not resolved
    acquired,             \* number of getUserMedia calls issued so far
    mediaStreamRef,       \* mediaStreamRef.current !== null
    audioContextRef,      \* audioContextRef.current !== null
    analyserRef,          \* analyserRef.current !== null
    liveStreams,          \* streams whose tracks have not been stopped
    openContexts,         \* audio contexts that have not been closed
    language,             \* useLanguage().language
    lang,                 \* recognitionRef.current.lang
    detached,             \* recognition objects the effect replaced that have not ended yet
    renderListening,      \* isListening as the render of the last startListening saw it
    animationFrame,       \* a frame of updateAudioLevel is requested
    stopRequested,        \* history: a stop was requested after the last startListening
    heard,                \* history: the result events of the current episode
    lastEvent             \* history: the handler that ran last, and what it reported

vars == << now, message, conversations, currentConversation, isListening, isLoading,
           showTextInput, audioLevel, selectedImage, requests, sent, sentTo, loadPending,
           encoding, recognitionRef, recState, silenceTimer, finalTranscript, acquiring, acquired,
           mediaStreamRef, audioContextRef, analyserRef, liveStreams, openContexts,
           language, lang, detached, renderListening, animationFrame,
           stopRequested, heard, lastEvent >>

chatVars == << conversations, currentConversation, isLoading, requests, sent, sentTo >>

\* Numbers of the requests whose fetch has not resolved.
pending == DOMAIN requests
composerVars == << message, selectedImage, showTextInput >>
captureVars == << acquiring, acquired, mediaStreamRef, audioContextRef, analyserRef,
                  liveStreams, openContexts, audioLevel, animationFrame >>
recognitionVars == << recognitionRef, recState, silenceTimer, finalTranscript >>
sessionVars == << language, lang, detached, renderListening >>

\* ----------------------------------------------------------------- helpers
\* No closure.
NoClosure == [conversation |-> NoConversation, updatedConversation |-> NoConversation,
              conversations |-> <<>>, userMessage |-> <<>>]

\* No argument.
NoArg == <<>>

\* The handler that ran, the request it belongs to (0: none), the number of
\* toasts it raised and, for a continuation of sendMessage, its closure and
\* the conversation that was current when it ran; arg is the file or the
\* recognition event a handler was called with.
EventOf(op, req, toasts, closure, was) ==
    [op |-> op, req |-> req, toasts |-> toasts, closure |-> closure, was |-> was,
     arg |-> NoArg]

Event(op, req, toasts) == EventOf(op, req, toasts, NoClosure, NoConversation)

EventWith(op, toasts, arg) == [Event(op, 0, toasts) EXCEPT !.arg = arg]

\* String.prototype.trim on a text: drop leading and trailing blanks.
RECURSIVE TrimLeft(_)
TrimLeft(s) == IF s # <<>> /\ Head(s) = " " THEN TrimLeft(Tail(s)) ELSE s

RECURSIVE TrimRight(_)
TrimRight(s) ==
    IF s # <<>> /\ s[Len(s)] = " " THEN TrimRight(SubSeq(s, 1, Len(s) - 1)) ELSE s

Trim(s) == TrimRight(TrimLeft(s))

\* Array.prototype.filter((c) => c.id !== id)
RECURSIVE FilterOut(_, _)
FilterOut(convs, id) ==
    IF convs = <<>> THEN <<>>
    ELSE IF Head(convs).id # id
         THEN <<Head(convs)>> \o FilterOut(Tail(convs), id)
         ELSE FilterOut(Tail(convs), id)

\* -------------------------------------------------------------------- Init
Init ==
    /\ now = MountTime
    /\ message = <<>>
    /\ conversations = <<>>
    /\ currentConversation = NoConversation
    /\ isListening = FALSE
    /\ isLoading = FALSE
    /\ showTextInput = FALSE
    /\ audioLevel = 0
    /\ selectedImage = NoImage
    /\ requests = << >>
    /\ sent = 0
    /\ sentTo = << >>
    /\ loadPending = TRUE
    /\ encoding = {}
    /\ recognitionRef = TRUE
    /\ recState = "idle"
    /\ silenceTimer = FALSE
    /\ finalTranscript = <<>>
    /\ acquiring = 0
    /\ acquired = 0
    /\ mediaStreamRef = FALSE
    /\ audioContextRef = FALSE
    /\ analyserRef = FALSE
    /\ liveStreams = 0
    /\ openContexts = 0
    /\ language = "en"
    /\ lang = getLanguageCode("en")
    /\ detached = 0
    /\ renderListening = FALSE
    /\ animationFrame = FALSE
    /\ stopRequested = FALSE
    /\ heard = <<>>
    /\ lastEvent = Event("mount", 0, 0)

\* ------------------------------------------------- capture and recognition
\* stopAudioVisualization: cancel the requested frame, close the context and
\* stop the tracks the refs hold, then empty the refs; analyserRef is left as
\* it is.
StopAudioVisualization ==
    /\ animationFrame' = FALSE
    /\ audioContextRef' = FALSE
    /\ openContexts' = IF audioContextRef THEN openContexts - 1 ELSE openContexts
    /\ mediaStreamRef' = FALSE
    /\ liveStreams' = IF mediaStreamRef THEN liveStreams - 1 ELSE liveStreams
    /\ audioLevel' = 0
    /\ UNCHANGED << analyserRef, acquiring, acquired >>

\* recognitionRef.current.stop(): a running session is asked to stop; it may
\* still deliver the result of the audio captured so far, then ends.
RecognitionStop(s) == IF s = "running" THEN "stopping" ELSE s

\* ------------------------------------------------------------ conversations
\* The Input is rendered: always in a conversation, on the welcome screen
\* only after showTextInput or with a staged image.
InputShown ==
    \/ currentConversation # NoConversation
    \/ showTextInput
    \/ selectedImage # NoImage

\* sendMessage's test without the trim.
NothingToSendUntrimmed(textToSend) ==
    textToSend = <<>> /\ selectedImage = NoImage

\* sendMessage's test for nothing to send:
\* !textToSend.trim() && !selectedImage
NothingToSend(textToSend) ==
    Trim(textToSend) = <<>> /\ selectedImage = NoImage

\* onChange of the Input: setMessage(e.target.value)
SetMessage(txt) ==
    /\ InputShown
    /\ txt # message
    /\ message' = txt
    /\ lastEvent' = Event("setMessage", 0, 0)
    /\ UNCHANGED << sessionVars, now, chatVars, isListening, selectedImage, showTextInput,
                    loadPending, encoding, recognitionVars, captureVars, stopRequested, heard >>

\* The user message sendMessage composes.
UserMessage(textToSend, n, t) ==
    [id |-> t, text |-> textToSend, isUser |-> TRUE, timestamp |-> t,
     image |-> selectedImage, req |-> n]

\* The conversation sendMessage adds the turn to: the current one, or a new one.
TargetConversation(t) ==
    IF currentConversation = NoConversation
    THEN [id |-> t, messages |-> <<>>]
    ELSE currentConversation

\* sendMessage up to its await, for the text it sends and the time t it
\* reads; the closure of the call (conversation, updatedConversation,
\* conversations) is kept for the continuation.
SendTurn(textToSend, t) ==
    /\ ~ NothingToSend(textToSend)
    /\ sent < MaxSends
    /\ LET n == sent + 1
           userMessage == UserMessage(textToSend, n, t)
           conversation == TargetConversation(t)
           updatedConversation ==
               [conversation EXCEPT !.messages = Append(@, userMessage)]
       IN /\ currentConversation' = updatedConversation
          /\ requests' = (n :> [conversation |-> conversation,
                                 updatedConversation |-> updatedConversation,
                                 conversations |-> conversations,
                                 userMessage |-> userMessage]) @@ requests
          /\ sent' = n
          /\ sentTo' = Append(sentTo, conversation.id)
          /\ lastEvent' = Event("sendMessage", n, 0)
    /\ message' = <<>>
    /\ selectedImage' = NoImage
    /\ showTextInput' = FALSE
    /\ isLoading' = TRUE
    /\ now' = t
    /\ UNCHANGED << sessionVars, conversations, isListening, loadPending, encoding,
                    recognitionVars, captureVars, stopRequested, heard >>

\* sendMessage() from the Enter key or the Send button (the button is
\* disabled while isLoading, the key is not): textToSend = message.
SendMessage(t) ==
    /\ InputShown
    /\ SendTurn(message, t)

\* sendMessage() with nothing to send returns at once.
SendMessageBlank ==
    /\ InputShown
    /\ NothingToSend(message)
    /\ lastEvent' = Event("sendMessageBlank", 0, 0)
    /\ UNCHANGED << sessionVars, now, chatVars, composerVars, isListening, loadPending, encoding,
                    recognitionVars, captureVars, stopRequested, heard >>

\* handleExampleQuestion: setMessage(question); sendMessage(question).  The
\* cards are rendered on the welcome screen while no input is shown.
HandleExampleQuestion(t) ==
    /\ currentConversation = NoConversation
    /\ ~ showTextInput /\ selectedImage = NoImage
    /\ SendTurn(ExampleQuestion, t)

\* The assistant message built from a reply, at the time t read.
BotMessage(n, t) ==
    [id |-> t + 1, text |-> <<"r">>, isUser |-> FALSE, timestamp |-> t,
     image |-> NoImage, req |-> n]

\* UpdatedConversations without the filter: the target's old entry stays.
UpdatedConversationsUnfiltered(r, finalConversation) ==
    <<finalConversation>> \o r.conversations

\* The listing sendMessage's continuation stores: the captured listing
\* without the target's entry, the final conversation first.
UpdatedConversations(r, finalConversation) ==
    <<finalConversation>> \o FilterOut(r.conversations, r.conversation.id)

\* FinalConversation built on the conversation current when the reply
\* arrives instead of the captured updatedConversation.
FinalConversationOfCurrent(r, botMessage) ==
    [currentConversation EXCEPT !.messages = Append(@, botMessage)]

\* The conversation sendMessage's continuation makes current.
FinalConversation(r, botMessage) ==
    [r.updatedConversation EXCEPT !.messages = Append(@, botMessage)]

\* sendMessage after its await, response.ok.
ChatOk(n, t) ==
    /\ n \in pending
    /\ now' = t
    /\ LET r == requests[n]
           finalConversation == FinalConversation(r, BotMessage(n, t))
       IN /\ currentConversation' = finalConversation
          /\ conversations' = UpdatedConversations(r, finalConversation)
    /\ isLoading' = FALSE
    /\ requests' = [m \in pending \ {n} |-> requests[m]]
    /\ lastEvent' = EventOf("chatOk", n, 0, requests[n], currentConversation)
    /\ UNCHANGED << sessionVars, sent, sentTo, composerVars, isListening,
                    loadPending, encoding, recognitionVars, captureVars,
                    stopRequested, heard >>

\* sendMessage after its await, the fetch rejected or the response not ok.
ChatFail(n) ==
    /\ n \in pending
    /\ isLoading' = FALSE
    /\ requests' = [m \in pending \ {n} |-> requests[m]]
    /\ lastEvent' = EventOf("chatFail", n, 1, requests[n], currentConversation)
    /\ UNCHANGED << sessionVars, now, conversations, currentConversation, sent, sentTo, composerVars,
                    isListening, loadPending, encoding, recognitionVars, captureVars,
                    stopRequested, heard >>

\* startNewChat
StartNewChat ==
    /\ currentConversation' = NoConversation
    /\ message' = <<>>
    /\ selectedImage' = NoImage
    /\ showTextInput' = FALSE
    /\ isListening' = FALSE
    /\ StopAudioVisualization
    /\ recState' = IF recognitionRef THEN RecognitionStop(recState) ELSE recState
    /\ stopRequested' = TRUE
    /\ lastEvent' = Event("startNewChat", 0, 0)
    /\ UNCHANGED << sessionVars, now, conversations, isLoading, requests, sent, sentTo,
                    loadPending, encoding, recognitionRef, silenceTimer,
                    finalTranscript, heard >>

\* selectConversation(conv), conv an entry of the rendered listing
SelectConversation(i) ==
    /\ i \in 1..Len(conversations)
    /\ currentConversation' = conversations[i]
    /\ selectedImage' = NoImage
    /\ showTextInput' = FALSE
    /\ isListening' = FALSE
    /\ StopAudioVisualization
    /\ recState' = IF recognitionRef THEN RecognitionStop(recState) ELSE recState
    /\ stopRequested' = TRUE
    /\ lastEvent' = Event("selectConversation", 0, 0)
    /\ UNCHANGED << sessionVars, now, message, conversations, isLoading, requests, sent, sentTo,
                    loadPending, encoding, recognitionRef, silenceTimer,
                    finalTranscript, heard >>

\* loadConversations: the fetch of the stored conversations resolved ok.
LoadConversationsOk ==
    /\ loadPending
    /\ loadPending' = FALSE
    /\ conversations' = StoredConversations
    /\ lastEvent' = Event("loadConversationsOk", 0, 0)
    /\ UNCHANGED << sessionVars, now, currentConversation, isLoading, requests, sent, sentTo,
                    composerVars, isListening, encoding, recognitionVars, captureVars,
                    stopRequested, heard >>

\* loadConversations: the fetch failed or the response was not ok.
LoadConversationsFail ==
    /\ loadPending
    /\ loadPending' = FALSE
    /\ lastEvent' = Event("loadConversationsFail", 0, 0)
    /\ UNCHANGED << sessionVars, now, chatVars, composerVars, isListening, encoding,
                    recognitionVars, captureVars, stopRequested, heard >>

\* ------------------------------------------------------------- attachments
\* The file of a name.
FileNamed(name) == CHOOSE file \in Files : file.name = name

\* The size test with the limit itself excluded.
TooLargeInclusive(file) == file.size >= MaxImageBytes

\* handleImageSelect's size test: file.size > 5 * 1024 * 1024
TooLarge(file) == file.size > MaxImageBytes

\* FileReader.readAsDataURL: the data URL of a file's content.
DataURL(name) == CASE name = "img1" -> "data:img1"
                   [] name = "big"  -> "data:big"
                   [] OTHER         -> "data:doc"

\* handleImageSelect up to its await: the type and size checks, then the
\* encoding is started.
HandleImageSelect(file) ==
    /\ IF ~ file.isImage
       THEN /\ lastEvent' = EventWith("imageInvalidType", 1, file)
            /\ UNCHANGED encoding
       ELSE IF TooLarge(file)
       THEN /\ lastEvent' = EventWith("imageTooLarge", 1, file)
            /\ UNCHANGED encoding
       ELSE /\ file.name \notin encoding
            /\ Cardinality(encoding) < MaxEncode
            /\ encoding' = encoding \cup {file.name}
            /\ lastEvent' = EventWith("imageSelected", 0, file)
    /\ UNCHANGED << sessionVars, now, chatVars, composerVars, isListening, loadPending,
                    recognitionVars, captureVars, stopRequested, heard >>

\* handleImageSelect after its await: the file was read.
EncodeOk(name) ==
    /\ name \in encoding
    /\ encoding' = encoding \ {name}
    /\ selectedImage' = DataURL(name)
    /\ showTextInput' = TRUE
    /\ lastEvent' = EventWith("imageStaged", 0, FileNamed(name))
    /\ UNCHANGED << sessionVars, now, chatVars, message, isListening, loadPending,
                    recognitionVars, captureVars, stopRequested, heard >>

\* A catch block that also drops the staged image.
EncodeFailClearing(name) ==
    /\ name \in encoding
    /\ encoding' = encoding \ {name}
    /\ selectedImage' = NoImage
    /\ lastEvent' = EventWith("imageEncodingFailed", 1, FileNamed(name))
    /\ UNCHANGED << sessionVars, now, chatVars, message, showTextInput, isListening, loadPending,
                    recognitionVars, captureVars, stopRequested, heard >>

\* handleImageSelect after its await: the reader reported an error.
EncodeFail(name) ==
    /\ name \in encoding
    /\ encoding' = encoding \ {name}
    /\ lastEvent' = EventWith("imageEncodingFailed", 1, FileNamed(name))
    /\ UNCHANGED << sessionVars, now, chatVars, composerVars, isListening, loadPending,
                    recognitionVars, captureVars, stopRequested, heard >>

\* onRemove of the preview / the X button: setSelectedImage(null)
RemoveImage ==
    /\ selectedImage # NoImage
    /\ selectedImage' = NoImage
    /\ lastEvent' = Event("removeImage", 0, 0)
    /\ UNCHANGED << sessionVars, now, chatVars, message, showTextInput, isListening, loadPending,
                    encoding, recognitionVars, captureVars, stopRequested, heard >>

\* ------------------------------------------------------------------ speech
\* Recognition events of the model: the segments an event finalizes and the
\* segment still in progress (<<>>: none).
ResultEvents ==
    { [final |-> <<" ", "a">>, interim |-> <<>>],
      [final |-> <<>>,         interim |-> <<"b">>] }

\* Levels updateAudioLevel may sample (average / 255): silence and full scale.
Levels == { 0, 1 }

\* Error codes of the platform's error event.
ErrorCodes == { "aborted", "no-speech" }

\* startListening, from the microphone buttons (rendered with
\* onClick = startListening only while isListening is false).
StartListening ==
    /\ ~ isListening
    /\ stopRequested' = FALSE
    /\ IF ~ recognitionRef
       THEN /\ lastEvent' = Event("startListeningUnsupported", 0, 1)
            /\ UNCHANGED << message, isListening, showTextInput, recState,
                            captureVars, heard, lang, renderListening >>
       ELSE /\ message' = <<>>
            /\ lang' = getLanguageCode(language)
            /\ renderListening' = isListening
            /\ IF recState # "idle"
               THEN \* recognition.start() throws InvalidStateError
                    /\ isListening' = FALSE
                    /\ lastEvent' = Event("startListeningFailed", 0, 1)
                    /\ UNCHANGED << showTextInput, recState, captureVars, heard >>
               ELSE /\ acquired < MaxAcquire
                    /\ isListening' = TRUE
                    /\ recState' = "running"
                    /\ acquiring' = acquiring + 1
                    /\ acquired' = acquired + 1
                    /\ showTextInput' = TRUE
                    /\ heard' = <<>>
                    /\ lastEvent' = Event("startListening", 0, 0)
                    /\ UNCHANGED << mediaStreamRef, audioContextRef, analyserRef,
                                    liveStreams, openContexts, audioLevel,
                                    animationFrame >>
    /\ UNCHANGED << language, detached, now, chatVars, selectedImage, loadPending,
                    encoding, recognitionRef, silenceTimer, finalTranscript >>

\* startAudioVisualization after its await, getUserMedia resolved: the refs
\* take the new stream, context and analyser, and updateAudioLevel is called.
\* It tests the analyser and the isListening of the render startListening was
\* called in: when both hold it samples a level and requests the next frame,
\* otherwise it does nothing.
AcquireOk ==
    /\ acquiring > 0
    /\ acquiring' = acquiring - 1
    /\ mediaStreamRef' = TRUE
    /\ liveStreams' = liveStreams + 1
    /\ audioContextRef' = TRUE
    /\ openContexts' = openContexts + 1
    /\ analyserRef' = TRUE
    /\ IF analyserRef' /\ renderListening
       THEN /\ audioLevel' \in Levels
            /\ animationFrame' = TRUE
       ELSE UNCHANGED << audioLevel, animationFrame >>
    /\ lastEvent' = Event("acquireOk", 0, 0)
    /\ UNCHANGED << sessionVars, now, chatVars, composerVars, isListening, loadPending,
                    encoding, recognitionVars, acquired, stopRequested, heard >>

\* startAudioVisualization after its await, getUserMedia rejected.
AcquireFail ==
    /\ acquiring > 0
    /\ acquiring' = acquiring - 1
    /\ isListening' = FALSE
    /\ lastEvent' = Event("acquireFail", 0, 1)
    /\ UNCHANGED << sessionVars, now, chatVars, composerVars, loadPending, encoding,
                    recognitionVars, acquired, mediaStreamRef, audioContextRef,
                    analyserRef, liveStreams, openContexts, audioLevel,
                    animationFrame, stopRequested, heard >>

\* stopListening without the test of isListening.
StopListeningBodyUnguarded ==
    IF recognitionRef
    THEN /\ recState' = RecognitionStop(recState)
         /\ isListening' = FALSE
         /\ StopAudioVisualization
    ELSE UNCHANGED << recState, isListening, captureVars >>

\* stopListening
StopListeningBody ==
    IF recognitionRef /\ isListening
    THEN /\ recState' = RecognitionStop(recState)
         /\ isListening' = FALSE
         /\ StopAudioVisualization
    ELSE UNCHANGED << recState, isListening, captureVars >>

\* stopListening from the microphone and stop-recording buttons (rendered
\* with onClick = stopListening only while isListening is true).
StopListening ==
    /\ isListening
    /\ StopListeningBody
    /\ stopRequested' = TRUE
    /\ lastEvent' = Event("stopListening", 0, 0)
    /\ UNCHANGED << sessionVars, now, chatVars, composerVars, loadPending, encoding,
                    recognitionRef, silenceTimer, finalTranscript, heard >>

\* The keyboard button of the welcome screen:
\* setShowTextInput(true); stopListening()
KeyboardButton ==
    /\ currentConversation = NoConversation
    /\ showTextInput' = TRUE
    /\ StopListeningBody
    /\ stopRequested' = TRUE
    /\ lastEvent' = Event("keyboardButton", 0, 0)
    /\ UNCHANGED << sessionVars, now, chatVars, message, selectedImage, loadPending, encoding,
                    recognitionRef, silenceTimer, finalTranscript, heard >>

\* recognition.onresult: the watchdog is re-armed, the event's final segments
\* are added to finalTranscript, and the composer takes the interim text, or
\* finalTranscript when there is none.  A session asked to stop delivers at
\* most one more result.
OnResult(ev) ==
    /\ recState \in {"running", "stopping"}
    /\ Len(heard) < MaxTranscript
    /\ heard' = Append(heard, ev)
    /\ silenceTimer' = TRUE
    /\ finalTranscript' = finalTranscript \o ev.final
    /\ LET currentText == IF ev.interim # <<>> THEN ev.interim ELSE finalTranscript'
       IN message' = IF currentText # <<>> THEN Trim(currentText) ELSE message
    /\ recState' = IF recState = "stopping" THEN "ending" ELSE recState
    /\ lastEvent' = EventWith("onresult", 0, ev)
    /\ UNCHANGED << sessionVars, now, chatVars, selectedImage, showTextInput, isListening,
                    loadPending, encoding, recognitionRef, captureVars,
                    stopRequested >>

\* recognition.onerror; the platform ends the session after an error.
OnError(code) ==
    /\ recState \in {"running", "stopping"}
    /\ recState' = "ending"
    /\ isListening' = FALSE
    /\ StopAudioVisualization
    /\ lastEvent' = EventWith("onerror", IF code # "aborted" THEN 1 ELSE 0, code)
    /\ UNCHANGED << sessionVars, now, chatVars, composerVars, loadPending, encoding,
                    recognitionRef, silenceTimer, finalTranscript, stopRequested, heard >>

\* onend without the reset of finalTranscript.
OnEndKeepingTranscript ==
    /\ recState \in {"running", "stopping", "ending"}
    /\ recState' = "idle"
    /\ heard' = <<>>
    /\ isListening' = FALSE
    /\ StopAudioVisualization
    /\ lastEvent' = Event("onend", 0, 0)
    /\ UNCHANGED << sessionVars, now, chatVars, composerVars, loadPending, encoding,
                    recognitionRef, silenceTimer, finalTranscript, stopRequested >>

\* recognition.onend
OnEnd ==
    /\ recState \in {"running", "stopping", "ending"}
    /\ recState' = "idle"
    /\ finalTranscript' = <<>>
    /\ heard' = <<>>
    /\ isListening' = FALSE
    /\ StopAudioVisualization
    /\ lastEvent' = Event("onend", 0, 0)
    /\ UNCHANGED << sessionVars, now, chatVars, composerVars, loadPending, encoding,
                    recognitionRef, silenceTimer, stopRequested >>

\* The silence timeout fires: recognitionRef.current?.stop()
SilenceTimeout ==
    /\ silenceTimer
    /\ silenceTimer' = FALSE
    /\ recState' = RecognitionStop(recState)
    /\ lastEvent' = Event("silenceTimeout", 0, 0)
    /\ UNCHANGED << sessionVars, now, chatVars, composerVars, isListening, loadPending, encoding,
                    recognitionRef, finalTranscript, captureVars, stopRequested, heard >>

\* setLanguage(l) from the language selector of the welcome screen (shown
\* while no conversation is current).  The effect with dependencies
\* [language, t, toast] is cleaned up and run again: the cleanup calls stop()
\* on the recognition object and stopAudioVisualization(); the effect then
\* puts a new, idle recognition object with the new language tag and a fresh
\* finalTranscript in recognitionRef.  The object replaced keeps its
\* handlers and, when it was not idle, ends later.  isListening is not
\* written, and the timer armed by the old handlers stays armed.  (Results a
\* replaced object still delivers are left out.)
LanguageChange(l) ==
    /\ currentConversation = NoConversation
    /\ l # language
    /\ language' = l
    /\ StopAudioVisualization
    /\ IF recognitionRef
       THEN /\ detached' = IF recState # "idle" THEN detached + 1 ELSE detached
            /\ recState' = "idle"
            /\ lang' = getLanguageCode(l)
       ELSE UNCHANGED << detached, recState, lang >>
    /\ finalTranscript' = <<>>
    /\ heard' = <<>>
    /\ lastEvent' = Event("languageChange", 0, 0)
    /\ UNCHANGED << renderListening, now, chatVars, composerVars, isListening,
                    loadPending, encoding, recognitionRef, silenceTimer,
                    stopRequested >>

\* onend of a recognition object the effect has replaced.
DetachedOnEnd ==
    /\ detached > 0
    /\ detached' = detached - 1
    /\ isListening' = FALSE
    /\ StopAudioVisualization
    /\ lastEvent' = Event("detachedOnEnd", 0, 0)
    /\ UNCHANGED << language, lang, renderListening, now, chatVars, composerVars,
                    loadPending, encoding, recognitionVars, stopRequested, heard >>

\* ------------------------------------------------------------ specification
Next ==
    \/ \E txt \in TypedTexts : SetMessage(txt)
    \/ \E t \in Readings(now) : SendMessage(t)
    \/ SendMessageBlank
    \/ \E t \in Readings(now) : HandleExampleQuestion(t)
    \/ \E n \in 1..MaxSends : \E t \in Readings(now) : ChatOk(n, t)
    \/ \E n \in 1..MaxSends : ChatFail(n)
    \/ StartNewChat
    \/ \E i \in 1..(MaxSends + 2) : SelectConversation(i)
    \/ LoadConversationsOk
    \/ LoadConversationsFail
    \/ \E file \in Files : HandleImageSelect(file)
    \/ \E name \in {"img1"} : EncodeOk(name)
    \/ \E name \in {"img1"} : EncodeFail(name)
    \/ RemoveImage
    \/ StartListening
    \/ AcquireOk
    \/ AcquireFail
    \/ StopListening
    \/ KeyboardButton
    \/ \E ev \in ResultEvents : OnResult(ev)
    \/ \E code \in ErrorCodes : OnError(code)
    \/ OnEnd
    \/ SilenceTimeout
    \/ \E l \in Languages : LanguageChange(l)
    \/ DetachedOnEnd

Spec == Init /\ [][Next]_vars

\* The conversation engine alone: typing and sending turns, replies and
\* failures, switching and loading conversations.  The speech and
\* attachment handlers left out write none of conversations,
\* currentConversation, requests, sent and isLoading.
ChatNext ==
    \/ \E txt \in TypedTexts : SetMessage(txt)
    \/ \E t \in Readings(now) : SendMessage(t)
    \/ \E n \in 1..MaxSends : \E t \in Readings(now) : ChatOk(n, t)
    \/ \E n \in 1..MaxSends : ChatFail(n)
    \/ StartNewChat
    \/ \E i \in 1..(MaxSends + 2) : SelectConversation(i)
    \/ LoadConversationsOk
    \/ LoadConversationsFail
    \/ KeyboardButton

ChatSpec == Init /\ [][ChatNext]_vars

\* The speech session and the capture resource alone, with the two
\* conversation handlers that stop them.  The handlers left out write none of
\* the recognition and capture state.
SpeechNext ==
    \/ StartListening
    \/ AcquireOk
    \/ AcquireFail
    \/ StopListening
    \/ KeyboardButton
    \/ \E ev \in ResultEvents : OnResult(ev)
    \/ \E code \in ErrorCodes : OnError(code)
    \/ OnEnd
    \/ SilenceTimeout
    \/ StartNewChat
    \/ \E i \in 1..2 : SelectConversation(i)
    \/ LoadConversationsOk

SpeechSpec == Init /\ [][SpeechNext]_vars

\* Speech and turns together: what the composer is driven by when the user
\* speaks, types and sends.
VoiceTurnNext ==
    \/ StartListening
    \/ StopListening
    \/ \E ev \in ResultEvents : OnResult(ev)
    \/ OnEnd
    \/ \E txt \in TypedTexts : SetMessage(txt)
    \/ \E t \in Readings(now) : SendMessage(t)
    \/ \E n \in 1..MaxSends : \E t \in Readings(now) : ChatOk(n, t)
    \/ \E n \in 1..MaxSends : ChatFail(n)

VoiceTurnSpec == Init /\ [][VoiceTurnNext]_vars

\* Texts of blanks only.
BlankTexts == { <<" ">> }

\* The composer: typing (also blanks only), staging and removing an image,
\* and sending with something or nothing to send.
ComposeNext ==
    \/ KeyboardButton
    \/ \E txt \in TypedTexts \cup BlankTexts : SetMessage(txt)
    \/ \E t \in Readings(now) : SendMessage(t)
    \/ SendMessageBlank
    \/ \E t \in Readings(now) : HandleExampleQuestion(t)
    \/ \E file \in Files : HandleImageSelect(file)
    \/ \E name \in {"img1"} : EncodeOk(name)
    \/ RemoveImage

ComposeSpec == Init /\ [][ComposeNext]_vars

\* Attachments: picking files, the two outcomes of the encoding, removing
\* the staged image, and the turns that carry it, over the stored
\* conversations.
AttachNext ==
    \/ LoadConversationsOk
    \/ \E txt \in TypedTexts : SetMessage(txt)
    \/ \E file \in Files : HandleImageSelect(file)
    \/ \E name \in {"img1"} : EncodeOk(name)
    \/ \E name \in {"img1"} : EncodeFail(name)
    \/ RemoveImage
    \/ \E t \in Readings(now) : SendMessage(t)

AttachSpec == Init /\ [][AttachNext]_vars

\* The speech session under changes of the language.
LanguageNext ==
    \/ StartListening
    \/ AcquireOk
    \/ StopListening
    \/ \E ev \in ResultEvents : OnResult(ev)
    \/ OnEnd
    \/ SilenceTimeout
    \/ \E l \in Languages : LanguageChange(l)
    \/ DetachedOnEnd

LanguageSpec == Init /\ [][LanguageNext]_vars

\* The turns alone: typing, sending, replies and failures.
TurnNext ==
    \/ KeyboardButton
    \/ \E txt \in TypedTexts : SetMessage(txt)
    \/ \E t \in Readings(now) : SendMessage(t)
    \/ \E n \in 1..MaxSends : \E t \in Readings(now) : ChatOk(n, t)
    \/ \E n \in 1..MaxSends : ChatFail(n)

TurnSpec == Init /\ [][TurnNext]_vars

\* ---------------------------------------------------------------- claims
\* The conversations the store shows: the listing's entries and the current
\* conversation.
ShownConversations ==
    { conversations[i] : i \in 1..Len(conversations) }
        \cup (IF currentConversation = NoConversation THEN {} ELSE {currentConversation})

IsPrefix(s, t) == Len(s) <= Len(t) /\ SubSeq(t, 1, Len(s)) = s

\* The last handler was the continuation of a request whose conversation
\* was no longer the current one when it ran.
StaleCompletion(ev) ==
    /\ ev.op \in {"chatOk", "chatFail"}
    /\ ev.was.id # ev.closure.conversation.id

\* C1: a reply that resolves after the user has left the conversation the
\* turn was issued in (selectConversation of another one, or startNewChat)
\* is discarded: the listing and the current conversation stay as they were,
\* so the message list of the conversation the turn was issued in does not
\* change.
C1_LateReplyDiscarded ==
    [][ (lastEvent'.op = "chatOk" /\ StaleCompletion(lastEvent'))
            => /\ conversations' = conversations
               /\ currentConversation' = currentConversation ]_vars

\* C2: an assistant reply lies only in a conversation whose id is the
\* conversationId its request carried.
C2_ReplyInRequestedConversation ==
    \A c \in ShownConversations :
        \A k \in 1..Len(c.messages) :
            (~ c.messages[k].isUser /\ c.messages[k].req > 0)
                => c.id = sentTo[c.messages[k].req]

\* C2 witness: a reply was applied while another conversation was current.
C2_Witness ==
    /\ lastEvent.op = "chatOk"
    /\ lastEvent.was # NoConversation
    /\ StaleCompletion(lastEvent)
    /\ \E c \in ShownConversations :
           \E k \in 1..Len(c.messages) :
               ~ c.messages[k].isUser /\ c.messages[k].req = lastEvent.req

\* The listing's entries with the given id.
RECURSIVE Entries(_, _)
Entries(convs, id) ==
    IF convs = <<>> THEN <<>>
    ELSE IF Head(convs).id = id
         THEN <<Head(convs)>> \o Entries(Tail(convs), id)
         ELSE Entries(Tail(convs), id)

\* The target conversation of a turn as the store shows it.
Target(closure) ==
    IF currentConversation # NoConversation
       /\ currentConversation.id = closure.conversation.id
    THEN <<currentConversation>>
    ELSE Entries(conversations, closure.conversation.id)

\* Number of messages of a list that belong to request n and are (not) the user's.
RECURSIVE CountOf(_, _, _)
CountOf(msgs, n, isUser) ==
    IF msgs = <<>> THEN 0
    ELSE (IF Head(msgs).req = n /\ Head(msgs).isUser = isUser THEN 1 ELSE 0)
             + CountOf(Tail(msgs), n, isUser)

\* C3: when the request of a turn has failed, the target conversation holds
\* what it held before sendMessage, the turn's user message exactly once and
\* no assistant message of the turn, and one error notification was raised.
C3_FailedTurnKeepsUserMessage ==
    lastEvent.op = "chatFail" =>
        /\ lastEvent.toasts = 1
        /\ Target(lastEvent.closure) # <<>>
        /\ \A k \in 1..Len(Target(lastEvent.closure)) :
             LET msgs == Target(lastEvent.closure)[k].messages
             IN /\ IsPrefix(lastEvent.closure.conversation.messages, msgs)
                /\ CountOf(msgs, lastEvent.req, TRUE) = 1
                /\ CountOf(msgs, lastEvent.req, FALSE) = 0

\* C4: message lists are append-only under sendMessage and its continuations:
\* a conversation's list in the state before such a step is a prefix of its
\* list after it, for the current conversation and for the listing's entries.
C4_AppendOnly ==
    [][ lastEvent'.op \in {"sendMessage", "chatOk", "chatFail"} =>
          /\ (currentConversation # NoConversation
              /\ currentConversation'.id = currentConversation.id)
                 => IsPrefix(currentConversation.messages, currentConversation'.messages)
          /\ \A i \in 1..Len(conversations) : \A j \in 1..Len(conversations') :
                 conversations'[j].id = conversations[i].id
                     => IsPrefix(conversations[i].messages, conversations'[j].messages)
      ]_vars

\* C5: after a reply has been applied its conversation is the first entry of
\* the listing, and the listing never holds two entries with the same id.
C5_RecentFirstNoDuplicates ==
    /\ lastEvent.op = "chatOk" =>
          /\ conversations # <<>>
          /\ conversations[1].id = lastEvent.closure.conversation.id
          /\ CountOf(conversations[1].messages, lastEvent.req, FALSE) = 1
    /\ \A i, j \in 1..Len(conversations) :
          i # j => conversations[i].id # conversations[j].id

\* C5 witness: the reply's conversation was the second entry of the listing
\* and is now the first of a listing of two.
C5_Witness ==
    /\ lastEvent.op = "chatOk"
    /\ Len(lastEvent.closure.conversations) = 2
    /\ lastEvent.closure.conversations[2].id = lastEvent.closure.conversation.id
    /\ Len(conversations) = 2
    /\ conversations[1].id = lastEvent.closure.conversation.id

\* C6: in every conversation the message ids are pairwise distinct and the
\* timestamps are non-decreasing in list order.
C6_IdsDistinctTimestampsOrdered ==
    \A c \in ShownConversations :
        \A i, j \in 1..Len(c.messages) :
            i < j => /\ c.messages[i].id # c.messages[j].id
                     /\ c.messages[i].timestamp <= c.messages[j].timestamp

\* C7: once stopListening, startNewChat or selectConversation has been
\* invoked, and until startListening is invoked again, no microphone stream
\* is live and no audio context is open.
C7_NothingHeldAfterStop ==
    stopRequested => (liveStreams = 0 /\ openContexts = 0)

\* C8: at most one capture resource (stream and audio context) is held
\* unreleased at any time.
C8_SingleCaptureResource ==
    liveStreams <= 1 /\ openContexts <= 1

\* A request of a text-only turn is in flight.
TextOnlyInFlight ==
    \E n \in pending : requests[n].userMessage.image = NoImage

\* C9: at most one of a Listening speech session, a pending attachment
\* encoding and an in-flight request of a text-only turn is active.
C9_SingleActiveMode ==
    /\ ~ (isListening /\ encoding # {})
    /\ ~ (isListening /\ TextOnlyInFlight)
    /\ ~ (encoding # {} /\ TextOnlyInFlight)

\* C10: a recognition result delivered after a stop was requested changes
\* neither the composer text nor the session's transcript and watchdog.
C10_ResultAfterStopIgnored ==
    [][ (lastEvent'.op = "onresult" /\ stopRequested)
            => /\ message' = message
               /\ finalTranscript' = finalTranscript
               /\ silenceTimer' = silenceTimer ]_vars

\* The session is Listening: the flag is set and recognition is running.
Listening == isListening /\ recState = "running"

\* C11: from the start of a listening episode on, also before any recognition
\* event has arrived, the silence watchdog is pending, so that a quiet
\* interval without events ends in the automatic stop of the session.
C11_WatchdogArmedWhileListening ==
    Listening => silenceTimer

\* The concatenation of the segments finalized by a sequence of result events.
RECURSIVE Finals(_)
Finals(evs) == IF evs = <<>> THEN <<>> ELSE Head(evs).final \o Finals(Tail(evs))

\* C12: while Listening, after every recognition event the composer text is
\* (up to surrounding blanks) the concatenation of all segments finalized so
\* far in this episode followed by the current interim segment, if any.
C12_ComposerIsFinalsThenInterim ==
    (lastEvent.op = "onresult" /\ isListening)
        => Trim(message) = Trim(Finals(heard) \o lastEvent.arg.interim)

\* The last handler was onresult with an event that finalizes a segment and
\* carries no interim segment.
FinalEvent ==
    /\ lastEvent.op = "onresult"
    /\ lastEvent.arg.final # <<>>
    /\ lastEvent.arg.interim = <<>>

\* C13 as stated: after interim events followed by a final event the composer
\* text equals the concatenation of the segments finalized in the episode.
C13_TranscriptIsConcatenation ==
    FinalEvent => message = Finals(heard)

\* C13: after any number of interim events followed by a final event, the
\* composer text equals the concatenation of the segments finalized in this
\* episode, and of no earlier one, with leading and trailing blanks removed.
C13_TranscriptIsTrimmedConcatenation ==
    FinalEvent => message = Trim(Finals(heard))

\* In a second episode, a final event followed an interim event and an earlier
\* final event.
C13_Witness ==
    /\ FinalEvent
    /\ acquired = 2
    /\ Len(heard) = 3
    /\ heard[1].final # <<>>
    /\ heard[2].interim # <<>>
    /\ message = <<"a", " ", "a">>

\* C14: a recognition error event leaves the session stopped, not listening
\* and with no microphone stream live and no audio context open; it raises
\* exactly one notification when its code is not 'aborted' and none when it
\* is.
C14_ErrorStopsSession ==
    lastEvent.op = "onerror"
        => /\ ~ isListening
           /\ recState \notin {"running", "stopping"}
           /\ liveStreams = 0 /\ openContexts = 0
           /\ lastEvent.toasts = IF lastEvent.arg = "aborted" THEN 0 ELSE 1

\* Every message the program holds: of the listing, of the current
\* conversation and of the conversations captured by pending requests.
HeldMessages ==
    LET held == { conversations[i] : i \in 1..Len(conversations) }
                    \cup { currentConversation }
                    \cup { requests[n].updatedConversation : n \in pending }
    IN UNION { { c.messages[i] : i \in 1..Len(c.messages) } : c \in held }

\* C15: sendMessage from the composer with a blank text (empty or blanks
\* only) and no staged image changes nothing: no message, no conversation,
\* no request, and the composer is as it was; and no user message ever has
\* both a blank text and no image.
C15_BlankSendChangesNothing ==
    /\ [] (\A m \in HeldMessages :
                m.isUser => (Trim(m.text) # <<>> \/ m.image # NoImage))
    /\ [][ ( /\ InputShown
             /\ Trim(message) = <<>> /\ selectedImage = NoImage
             /\ lastEvent'.op \in {"sendMessage", "sendMessageBlank"} )
                => UNCHANGED << chatVars, composerVars >> ]_vars

\* sendMessage returned at once on a text of blanks only.
C15_Witness ==
    /\ lastEvent.op = "sendMessageBlank"
    /\ message = <<" ">>
    /\ selectedImage = NoImage

\* The handlers of a picked file before the encoding.
PickOps == { "imageInvalidType", "imageTooLarge", "imageSelected" }

RejectOps == { "imageInvalidType", "imageTooLarge", "imageEncodingFailed" }

\* The data URLs of the files the validation rejects.
InvalidImages ==
    { DataURL(file.name) :
        file \in { f \in Files : ~ f.isImage \/ f.size > 5 * 1024 * 1024 } }

\* C17: a rejected attachment (wrong type, too large, encoding failure)
\* raises one user-visible error and leaves the listing, the current
\* conversation, the previously staged image and the composer text as they
\* were; a file the validation rejects is never staged and never part of a
\* message.
C17_RejectedAttachmentChangesNothing ==
    /\ [] ( /\ selectedImage \notin InvalidImages
            /\ \A m \in HeldMessages : m.image \notin InvalidImages )
    /\ [][ lastEvent'.op \in RejectOps
                => /\ lastEvent'.toasts = 1
                   /\ UNCHANGED << conversations, currentConversation,
                                   selectedImage, message >> ]_vars

\* The encoding of a second pick failed while an image was staged, a text
\* typed and a conversation current.
C17_Witness ==
    /\ lastEvent.op = "imageEncodingFailed"
    /\ selectedImage # NoImage
    /\ message # <<>>
    /\ currentConversation # NoConversation
    /\ conversations # <<>>

\* The handlers that call stopAudioVisualization on every run.
ReleaseOps == { "onerror", "onend", "startNewChat", "selectConversation" }

\* C18: after stopAudioVisualization has run a second time in a row, or when
\* nothing was ever acquired, the stream and audio-context references are
\* empty, no microphone stream is live, no audio context is open and the
\* audio level is 0.
C18_ReleaseIdempotent ==
    [][ (lastEvent'.op \in ReleaseOps /\ (lastEvent.op \in ReleaseOps \/ acquired = 0))
            => /\ ~ mediaStreamRef' /\ ~ audioContextRef'
               /\ liveStreams' = 0 /\ openContexts' = 0
               /\ audioLevel' = 0 ]_vars

\* C19: stopListening called while not listening (by the keyboard button)
\* does not call the recognition object and leaves isListening, the composer
\* text, the staged image, the conversations and the capture state as they
\* were.
C19_StopWhileIdleIsNoOp ==
    [][ (lastEvent'.op = "keyboardButton" /\ ~ isListening)
            => UNCHANGED << isListening, message, selectedImage, conversations,
                            currentConversation, recognitionVars, captureVars >> ]_vars

\* The keyboard button was pressed while isListening was false although
\* recognition was running and a stream was held.
C19_Witness ==
    /\ lastEvent.op = "keyboardButton"
    /\ ~ isListening
    /\ recState = "running"
    /\ mediaStreamRef

\* C20: leaving Listening cancels the pending silence watchdog, so a
\* watchdog that fires while the session is Listening was armed by a result
\* event of the current episode: no timer of an earlier episode fires in a
\* later one and stops it.
C20_WatchdogOfThisEpisode ==
    [][ (lastEvent'.op = "silenceTimeout" /\ Listening) => heard # <<>> ]_vars

\* C21: when the microphone acquisition fails after startListening started
\* recognition, the session is stopped: isListening is false, recognition is
\* not left running, no stream is live and no audio context open, and the
\* failure is reported to the user.
C21_AcquisitionFailureStopsSession ==
    lastEvent.op = "acquireFail"
        => /\ ~ isListening
           /\ recState # "running"
           /\ liveStreams = 0 /\ openContexts = 0
           /\ lastEvent.toasts = 1

\* C22: in every state in which the request of an accepted turn has not
\* resolved and the turn's target conversation is the current one, the
\* current conversation holds the turn's user message, exactly once.  (The
\* claim moreover places it last.)
C22_UserMessageShownWhilePending ==
    \A n \in pending :
        currentConversation.id = requests[n].updatedConversation.id
            => CountOf(currentConversation.messages, n, TRUE) = 1

\* C23: a change of the language while the session is Listening does not
\* affect the session: it stays Listening, with recognition running.
C23_LanguageChangeKeepsSession ==
    [][ (lastEvent'.op = "languageChange" /\ Listening) => Listening' ]_vars

\* C24: when a request has completed, with a reply or a failure, isLoading
\* is false; and no reported condition leaves the controller in a state from
\* which the user cannot start listening again: a startListening that finds
\* the microphone idle (isListening false) starts a session, unless a stop
\* requested before is still to be completed by the platform.
C24_ControllerStaysUsable ==
    /\ [] (lastEvent.op \in {"chatOk", "chatFail"} => ~ isLoading)
    /\ [][ lastEvent'.op = "startListeningFailed"
                => recState \in {"stopping", "ending"} ]_vars

\* C25: the completion of a chat request, with a reply or a failure, never
\* changes which conversation is current: the id of the current conversation
\* changes only in steps of selectConversation, startNewChat and sendMessage.
C25_CompletionKeepsCurrent ==
    [][ lastEvent'.op \in {"chatOk", "chatFail"}
            => currentConversation'.id = currentConversation.id ]_vars

\* C26: a conversation that is in the listing stays in it: after every step
\* the listing has an entry of the same id with at least as many messages.
C26_ListingEntriesKept ==
    [][ \A i \in 1..Len(conversations) :
            \E j \in 1..Len(conversations') :
                /\ conversations'[j].id = conversations[i].id
                /\ Len(conversations'[j].messages) >= Len(conversations[i].messages) ]_vars

\* C27: whenever no chat request is in flight and a conversation is current,
\* the listing has an entry with the id and the message list of the current
\* conversation.
C27_ListingMirrorsCurrent ==
    (pending = {} /\ currentConversation # NoConversation)
        => \E i \in 1..Len(conversations) : conversations[i] = currentConversation

\* C28: isLoading is true in every state in which a chat request is in
\* flight.
C28_LoadingWhilePending ==
    pending # {} => isLoading

\* C29: while the session is Listening and the microphone acquisition has
\* completed (the refs hold the stream and the analyser), level sampling is
\* active: a frame of updateAudioLevel is requested.
C29_SamplingWhileListening ==
    (Listening /\ acquiring = 0 /\ mediaStreamRef /\ analyserRef) => animationFrame

\* The handlers that clear the staged image.
ClearOps == { "startNewChat", "selectConversation", "sendMessage" }

\* C30: after startNewChat, selectConversation or an accepted sendMessage
\* has cleared the staged image, no image is staged before the user selects
\* a file again: an encoding that was started before the operation and
\* completes directly after it stages nothing.
C30_NoStagingAfterClear ==
    [][ (lastEvent.op \in ClearOps /\ lastEvent'.op = "imageStaged")
            => selectedImage' = NoImage ]_vars

=============================================================================
